---- MODULE Spec2Model ----
(***************************************************************************)
(* Model of the donation contract, donation-rs/contract/src/lib.rs.        *)
(*                                                                         *)
(* The contract keeps a beneficiary and an UnorderedMap from donor to the  *)
(* accumulated donation (u128).  Integer widths are scaled down, keeping   *)
(* their order (usize on wasm32 < u64 = usize on a 64-bit host < u128),    *)
(* and STORAGE_COST is scaled with them.  The build decides two things the *)
(* source leaves open: the width of usize (the wasm32 contract build or    *)
(* the 64-bit host the tests run on) and whether `+=` panics or wraps on   *)
(* overflow (debug / overflow-checks build or plain release build).  Both  *)
(* are chosen in Init and stay fixed.                                      *)
(***************************************************************************)
EXTENDS Integers, Naturals, Sequences, FiniteSets, TLC

\* ---------------------------------------------------------------- bounds
MaxCalls == 3          \* committed donate and change_beneficiary calls per run
Usize32Bits == 6       \* scaled width of usize on wasm32
U64Bits == 8           \* scaled width of u64 (and of usize on a 64-bit host)
U128Bits == 10         \* scaled width of u128 / Balance

\* ------------------------------------------------------- program constants
STORAGE_COST == 300    \* scaled 1_000_000_000_000_000_000_000
DEFAULT_LIMIT == 50    \* limit.unwrap_or(50)

Pow2(n) == 2 ^ n
U128_MOD == Pow2(U128Bits)
U128_MAX == U128_MOD - 1

\* Option::None of an optional unsigned argument
None == -1
\* no account (contract state not written yet)
NoAccount == ""

\* env::current_account_id()
CurrentAccount == "contract"
\* env::predecessor_account_id() of a call
Callers == {"contract", "donor_a", "donor_b"}
\* predecessors of the donate calls
Donors == {"donor_a", "donor_b"}
\* values of an AccountId argument
AccountArgs == {"beneficiary", "donor_a"}
\* accounts a lookup is made for
AccountIds == {"donor_a", "donor_b", "beneficiary"}
\* env::attached_deposit() of a call
Deposits == {STORAGE_COST - 1, STORAGE_COST, STORAGE_COST + (U128_MAX \div 2)}
\* from_index: Option<U128>
FromInputs == {None, 1, Pow2(Usize32Bits), Pow2(U64Bits)}
\* limit: Option<u64>
LimitInputs == {None, 1, Pow2(Usize32Bits)}

VARIABLES
  usize_bits,       \* build: width of usize
  overflow_checks,  \* build: TRUE when arithmetic overflow panics
  state_exists,     \* env::state_exists()
  beneficiary,      \* Contract.beneficiary
  donations,        \* Contract.donations, in iteration order: <<account, amount>>
  logs,             \* log! lines emitted by committed calls
  transfers,        \* Promise transfers issued by committed calls
  last,             \* the last call: its inputs, its failure, its return value
  ncalls,           \* number of committed donate and change_beneficiary calls
  contributed,      \* history: unbounded sum of the net amounts of each caller's successful donations
  donors,           \* history: callers with at least one successful donation
  overflowed,       \* history: some donation's sum exceeded u128
  succeeded         \* history: number of donate calls that did not fail

vars == <<usize_bits, overflow_checks, state_exists, beneficiary, donations, logs,
          transfers, last, ncalls, contributed, donors, overflowed, succeeded>>

build == <<usize_bits, overflow_checks>>
ledger == <<state_exists, beneficiary, donations>>
effects == <<logs, transfers>>
history == <<contributed, donors, overflowed, succeeded>>

\* ------------------------------------------------------ integer conversions
\* `x as usize`: keeps the low usize_bits bits
AsUsize(x, bits) == x % Pow2(bits)

\* u128 wrapping of an arithmetic result
WrapU128(x) == x % U128_MOD

\* ------------------------------------------------------------ UnorderedMap
RECURSIVE IndexOf(_, _, _)
IndexOf(m, k, i) ==
  IF i > Len(m) THEN 0
  ELSE IF m[i][1] = k THEN i ELSE IndexOf(m, k, i + 1)

\* UnorderedMap::get(&k).unwrap_or(0)
MapGetOr0(m, k) ==
  LET i == IndexOf(m, k, 1) IN IF i = 0 THEN 0 ELSE m[i][2]

\* UnorderedMap::insert(&k, &v): replaces the value of a present key in place, appends a new key
MapInsertAlwaysAppend(m, k, v) == Append(m, <<k, v>>)
MapInsertDropsOthers(m, k, v) == << <<k, v>> >>
MapInsertMovesToEnd(m, k, v) ==
  Append(SelectSeq(m, LAMBDA e : e[1] # k), <<k, v>>)
MapInsert(m, k, v) ==
  LET i == IndexOf(m, k, 1) IN
  IF i = 0 THEN Append(m, <<k, v>>) ELSE [m EXCEPT ![i] = <<k, v>>]

\* UnorderedMap::len()
MapLen(m) == Len(m)

\* Iterator::skip(n)
Skip(s, n) == IF n >= Len(s) THEN <<>> ELSE SubSeq(s, n + 1, Len(s))
\* Iterator::take(n)
Take(s, n) == IF n >= Len(s) THEN s ELSE SubSeq(s, 1, n)

\* --------------------------------------------------------------- the calls
NoCall ==
  [op |-> "none", caller |-> NoAccount, deposit |-> 0, account |-> NoAccount,
   from_index |-> None, limit |-> None, err |-> "none",
   ret_amount |-> 0, ret_list |-> <<>>, ret_account |-> NoAccount,
   steps |-> <<>>, transfer |-> 0]

\* #[private]: env::current_account_id() == env::predecessor_account_id()
IsPrivateCallAnyone(caller) == TRUE
IsPrivateCallInverted(caller) == caller # CurrentAccount
IsPrivateCall(caller) == caller = CurrentAccount

\* assert!(!env::state_exists(), "Already initialized")
MayInitializeAlways(exists) == TRUE
MayInitialize(exists) == ~exists

\* assert!(donation_amount >= STORAGE_COST, ...)
CoversStorageOffByOne(deposit) == deposit >= STORAGE_COST - 1
CoversStorageStrict(deposit) == deposit > STORAGE_COST
CoversStorage(deposit) == deposit >= STORAGE_COST

\* Promise::new(self.beneficiary.clone()).transfer(donation_amount)
PromiseTransferOfDeposit(receiver, deposit, donation_amount) == <<receiver, deposit>>
PromiseTransferToSelf(receiver, deposit, donation_amount) == <<CurrentAccount, donation_amount>>
PromiseTransfer(receiver, deposit, donation_amount) == <<receiver, donation_amount>>

\* the promise of donate has no callback (.then): the contract runs nothing
\* when the host reports that the transfer failed, and the donations stay
OnTransferFailedReverts(m, donor, amount) ==
  [i \in 1..Len(m) |-> IF m[i][1] = donor THEN <<donor, (m[i][2] - amount) % U128_MOD>> ELSE m[i]]
OnTransferFailed(m, donor, amount) == m

\* Self { beneficiary, donations: UnorderedMap::new(b"d") }
NewContractKeepsOld(arg, old) == [beneficiary |-> old, donations |-> <<>>]
NewContract(arg, old) == [beneficiary |-> arg, donations |-> <<>>]

Init ==
  /\ usize_bits \in {Usize32Bits, U64Bits}
  /\ overflow_checks \in BOOLEAN
  /\ state_exists = FALSE
  /\ beneficiary = NoAccount
  /\ donations = <<>>
  /\ logs = <<>>
  /\ transfers = <<>>
  /\ last = NoCall
  /\ ncalls = 0
  /\ contributed = [a \in AccountIds |-> 0]
  /\ donors = {}
  /\ overflowed = FALSE
  /\ succeeded = 0

\* Contract::new, behind the #[init] #[private] wrapper
New(caller, arg) ==
  /\ UNCHANGED <<build, effects, history, ncalls>>
  /\ LET call == [NoCall EXCEPT !.op = "new", !.caller = caller, !.account = arg] IN
     IF ~IsPrivateCall(caller)
     THEN /\ last' = [call EXCEPT !.err = "Unauthorized"]
          /\ UNCHANGED ledger
     ELSE IF ~MayInitialize(state_exists)
     THEN /\ last' = [call EXCEPT !.err = "AlreadyInitialized"]
          /\ UNCHANGED ledger
     ELSE LET c == NewContract(arg, beneficiary) IN
          /\ last' = call
          /\ state_exists' = TRUE
          /\ beneficiary' = c.beneficiary
          /\ donations' = c.donations

\* Contract::donate
Donate(caller, deposit) ==
  /\ state_exists
  /\ ncalls < MaxCalls
  /\ UNCHANGED <<build, state_exists, beneficiary>>
  /\ LET call == [NoCall EXCEPT !.op = "donate", !.caller = caller, !.deposit = deposit]
         donation_amount == WrapU128(deposit - STORAGE_COST)
         sum == MapGetOr0(donations, caller) + donation_amount
         current_donation == WrapU128(sum)
     IN
     IF ~CoversStorage(deposit)
     THEN /\ last' = [call EXCEPT !.err = "InsufficientAttachment"]
          /\ UNCHANGED <<donations, effects, history, ncalls>>
     ELSE IF sum > U128_MAX /\ overflow_checks
     THEN /\ last' = [call EXCEPT !.err = "Overflow"]
          /\ UNCHANGED <<donations, effects, history, ncalls>>
     ELSE /\ last' = [call EXCEPT !.steps =
                       << <<"insert", caller, current_donation>>,
                          <<"log", caller, donation_amount, current_donation>>,
                          <<"transfer">> \o PromiseTransfer(beneficiary, deposit, donation_amount) >>]
          /\ donations' = MapInsert(donations, caller, current_donation)
          /\ logs' = Append(logs, <<caller, donation_amount, current_donation>>)
          /\ transfers' = Append(transfers, PromiseTransfer(beneficiary, deposit, donation_amount))
          /\ succeeded' = succeeded + 1
          /\ contributed' = [contributed EXCEPT ![caller] = @ + donation_amount]
          /\ donors' = donors \cup {caller}
          /\ overflowed' = (overflowed \/ sum > U128_MAX)
          /\ ncalls' = ncalls + 1

\* Contract::get_donation_for_account
get_donation_for_account(account_id) == MapGetOr0(donations, account_id)

\* Contract::total_donations
total_donations == MapLen(donations)

\* Contract::get_donations
get_donations(from_index, limit) ==
  LET start == IF from_index = None THEN 0 ELSE from_index
      lim == IF limit = None THEN DEFAULT_LIMIT ELSE limit
  IN Take(Skip(donations, AsUsize(start, usize_bits)), AsUsize(lim, usize_bits))

GetDonationForAccount(account_id) ==
  /\ state_exists
  /\ last' = [NoCall EXCEPT !.op = "get_donation_for_account",
                            !.account = account_id,
                            !.ret_amount = get_donation_for_account(account_id)]
  /\ UNCHANGED <<build, ledger, effects, history, ncalls>>

TotalDonations ==
  /\ state_exists
  /\ last' = [NoCall EXCEPT !.op = "total_donations",
                            !.ret_amount = total_donations]
  /\ UNCHANGED <<build, ledger, effects, history, ncalls>>

GetDonations(from_index, limit) ==
  /\ state_exists
  /\ last' = [NoCall EXCEPT !.op = "get_donations",
                            !.from_index = from_index, !.limit = limit,
                            !.ret_list = get_donations(from_index, limit)]
  /\ UNCHANGED <<build, ledger, effects, history, ncalls>>

\* Contract::beneficiary
BeneficiaryTakesField ==
  /\ state_exists
  /\ last' = [NoCall EXCEPT !.op = "beneficiary",
                            !.ret_account = beneficiary]
  /\ beneficiary' = NoAccount
  /\ UNCHANGED <<build, state_exists, donations, effects, history, ncalls>>
Beneficiary ==
  /\ state_exists
  /\ last' = [NoCall EXCEPT !.op = "beneficiary",
                            !.ret_account = beneficiary]
  /\ UNCHANGED <<build, ledger, effects, history, ncalls>>

\* Contract::change_beneficiary, behind the #[private] wrapper
ChangeBeneficiary(caller, arg) ==
  /\ state_exists
  /\ ncalls < MaxCalls
  /\ UNCHANGED <<build, state_exists, donations, effects, history>>
  /\ LET call == [NoCall EXCEPT !.op = "change_beneficiary", !.caller = caller,
                                !.account = arg] IN
     IF ~IsPrivateCall(caller)
     THEN /\ last' = [call EXCEPT !.err = "Unauthorized"]
          /\ UNCHANGED <<beneficiary, ncalls>>
     ELSE /\ last' = call
          /\ beneficiary' = arg
          /\ ncalls' = ncalls + 1

\* the host reports that the i-th transfer issued by donate failed
TransferFailed(i) ==
  /\ state_exists
  /\ i \in 1..Len(transfers)
  /\ last' = [NoCall EXCEPT !.op = "transfer_failed", !.transfer = i,
                            !.caller = logs[i][1], !.account = transfers[i][1]]
  /\ donations' = OnTransferFailed(donations, logs[i][1], transfers[i][2])
  /\ UNCHANGED <<build, state_exists, beneficiary, effects, history, ncalls>>

Next ==
  \/ \E c \in Callers, a \in AccountArgs : New(c, a)
  \/ \E c \in Donors, d \in Deposits : Donate(c, d)
  \/ \E a \in AccountIds : GetDonationForAccount(a)
  \/ TotalDonations
  \/ \E f \in FromInputs, l \in LimitInputs : GetDonations(f, l)
  \/ Beneficiary
  \/ \E c \in Callers, a \in AccountArgs : ChangeBeneficiary(c, a)
  \/ \E i \in 1..MaxCalls : TransferFailed(i)

Spec == Init /\ [][Next]_vars

\* ------------------------------------------------------------- the claims
\* the start index a get_donations call asked for
StartOf(call) == IF call.from_index = None THEN 0 ELSE call.from_index

\* C1: for every identity, get_donation_for_account returns the sum of
\* (attached - STORAGE_COST) over that identity's donate calls that did not
\* fail, and 0 when there is none.
C1_LookupIsSumOfNets ==
  \A id \in AccountIds : get_donation_for_account(id) = contributed[id]

\* C2: a donate call with an attached deposit below STORAGE_COST fails with
\* InsufficientAttachment and leaves the donations, their count and the
\* beneficiary as they were, emits no log and issues no transfer.
C2_InsufficientAttachmentRejected ==
  [][(last'.op = "donate" /\ last'.deposit < STORAGE_COST)
       => /\ last'.err = "InsufficientAttachment"
          /\ donations' = donations
          /\ total_donations' = total_donations
          /\ beneficiary' = beneficiary
          /\ logs' = logs
          /\ transfers' = transfers]_vars

C2_Witness ==
  /\ last.op = "donate"
  /\ last.deposit < STORAGE_COST
  /\ last.err = "InsufficientAttachment"
  /\ total_donations > 0
  /\ get_donation_for_account(last.caller) > 0

\* C3: a donate call whose current balance plus net amount exceeds the
\* largest u128 fails with Overflow, and the donations, their count, the
\* logs and the transfers stay as they were: the sum is never wrapped.
C3_OverflowRejected ==
  [][(/\ last'.op = "donate"
      /\ last'.deposit >= STORAGE_COST
      /\ get_donation_for_account(last'.caller) + (last'.deposit - STORAGE_COST) > U128_MAX)
       => /\ last'.err = "Overflow"
          /\ donations' = donations
          /\ total_donations' = total_donations
          /\ transfers' = transfers]_vars

\* C4: get_donations never fails and returns the empty sequence whenever the
\* start index is at least the number of donations, for every start index
\* of the u128 argument, those wider than usize included.
C4_StartBeyondEndIsEmpty ==
  (last.op = "get_donations" /\ StartOf(last) >= total_donations)
    => (last.err = "none" /\ last.ret_list = <<>>)

\* the pages get_donations(start, limit), get_donations(start + limit, limit), ...
\* concatenated until start >= total_donations
RECURSIVE Pages(_, _)
Pages(start, limit) ==
  IF start >= total_donations THEN <<>>
  ELSE get_donations(start, limit) \o Pages(start + limit, limit)

\* page sizes of the pagination claim, all >= 1
PageSizes == {1, 2, Pow2(Usize32Bits), Pow2(Usize32Bits) + 1}

\* C5: get_donations returns at most limit entries, and for every page size
\* limit >= 1 the concatenated pages hold every entry of the donations
\* exactly once, with the amount get_donation_for_account returns, in the
\* iteration order.
C5_PagesCoverAllEntriesOnce ==
  \A limit \in PageSizes :
    /\ \A f \in FromInputs : Len(get_donations(f, limit)) <= limit
    /\ LET all == Pages(0, limit) IN
       /\ Len(all) = total_donations
       /\ \A i \in 1..Len(all) :
            /\ all[i] = donations[i]
            /\ all[i][2] = get_donation_for_account(all[i][1])
       /\ \A id \in donors : Cardinality({i \in 1..Len(all) : all[i][1] = id}) = 1

\* C6: total_donations is the number of distinct callers with at least one
\* successful donate call; a further donation by a recorded caller and a
\* failed donation leave it unchanged.
C6_CountIsDistinctDonors ==
  /\ [](total_donations = Cardinality(donors))
  /\ [][/\ (last'.op = "donate" /\ last'.err = "none" /\ last'.caller \in donors)
            => total_donations' = total_donations
        /\ (last'.op = "donate" /\ last'.err # "none")
            => total_donations' = total_donations]_vars

C6_Witness ==
  /\ last.op = "donate"
  /\ last.err = "none"
  /\ Len(logs) >= 2
  /\ logs[1][1] = last.caller
  /\ total_donations = 1

\* C7 as stated: the contract is initialized once and never again, and a new
\* call made when state exists fails with AlreadyInitialized and leaves the
\* beneficiary and the donations unchanged.
C7_Original ==
  [][/\ state_exists => state_exists'
     /\ (last'.op = "new" /\ state_exists)
          => /\ last'.err = "AlreadyInitialized"
             /\ beneficiary' = beneficiary
             /\ donations' = donations]_vars

\* C7 as amended: the contract is initialized once and never again, and a new
\* call made when state exists fails, with AlreadyInitialized when the
\* contract account makes it and with Unauthorized (the #[private] check
\* comes first) when any other caller makes it, and leaves the beneficiary
\* and the donations unchanged.
C7_InitializedOnce ==
  [][/\ state_exists => state_exists'
     /\ (last'.op = "new" /\ last'.err = "none") => (~state_exists /\ state_exists')
     /\ (last'.op = "new" /\ state_exists)
          => /\ last'.err = (IF last'.caller = CurrentAccount
                             THEN "AlreadyInitialized" ELSE "Unauthorized")
             /\ beneficiary' = beneficiary
             /\ donations' = donations]_vars

C7_Witness ==
  /\ last.op = "new"
  /\ last.err = "AlreadyInitialized"
  /\ total_donations > 0
  /\ last.account # beneficiary

\* C8: change_beneficiary by a caller other than the contract account fails
\* with Unauthorized and leaves the beneficiary and the donations unchanged;
\* by the contract account it makes the beneficiary the given account.
C8_ChangeBeneficiaryIsPrivate ==
  [][(last'.op = "change_beneficiary")
       => IF last'.caller # CurrentAccount
          THEN /\ last'.err = "Unauthorized"
               /\ beneficiary' = beneficiary
               /\ donations' = donations
          ELSE /\ last'.err = "none"
               /\ beneficiary' = last'.account]_vars

C8_Witness ==
  /\ last.op = "change_beneficiary"
  /\ last.caller # CurrentAccount
  /\ last.err = "Unauthorized"
  /\ last.account # beneficiary
  /\ ncalls > 0
  /\ transfers = <<>>

\* C9: no step decreases the stored balance of any identity, an absent
\* identity counting as 0.
C9_BalancesNeverDecrease ==
  [][\A id \in AccountIds :
       get_donation_for_account(id)' >= get_donation_for_account(id)]_vars

\* C10: after a successful new call the beneficiary is the account passed in,
\* total_donations is 0 and get_donation_for_account is 0 for every account.
C10_NewLedgerIsEmpty ==
  (last.op = "new" /\ last.err = "none")
    => /\ beneficiary = last.account
       /\ total_donations = 0
       /\ \A id \in AccountIds : get_donation_for_account(id) = 0

C10_Witness ==
  /\ last.op = "new"
  /\ last.err = "none"
  /\ state_exists
  /\ beneficiary = "donor_a"

\* C11: a new call by a caller other than the contract account is rejected
\* and leaves the contract uninitialized (and every field as it was); only a
\* new call by the contract account takes it from uninitialized to
\* initialized.
C11_NewIsPrivate ==
  [][/\ (last'.op = "new" /\ last'.caller # CurrentAccount)
          => /\ last'.err = "Unauthorized"
             /\ state_exists' = state_exists
             /\ beneficiary' = beneficiary
             /\ donations' = donations
     /\ (~state_exists /\ state_exists')
          => (last'.op = "new" /\ last'.caller = CurrentAccount)]_vars

C11_Witness ==
  /\ last.op = "new"
  /\ last.caller # CurrentAccount
  /\ last.err = "Unauthorized"
  /\ ~state_exists

\* C12: when the host reports that a transfer issued by a successful donate
\* failed, nothing is reverted: the donations (the donor's balance among
\* them), their count and the beneficiary stay as they were, whenever the
\* report arrives.
C12_FailedTransferNotReverted ==
  [][(last'.op = "transfer_failed")
       => /\ donations' = donations
          /\ MapGetOr0(donations', last'.caller) = get_donation_for_account(last'.caller)
          /\ total_donations' = total_donations
          /\ beneficiary' = beneficiary]_vars

C12_Witness ==
  /\ last.op = "transfer_failed"
  /\ last.transfer = 1
  /\ Len(transfers) >= 2
  /\ transfers[1][2] > 0
  /\ get_donation_for_account(last.caller) >= transfers[1][2]

\* the read-only methods
ReadOps == {"get_donation_for_account", "total_donations", "get_donations", "beneficiary"}

\* C13: a read (get_donation_for_account, total_donations, get_donations,
\* beneficiary) leaves the beneficiary, the donations, the logs and the
\* transfers unchanged, returns what the method gives on the state before
\* it, and repeated with the same arguments returns the same result.
C13_ReadsArePure ==
  [][(last'.op \in ReadOps)
       => /\ state_exists' = state_exists
          /\ beneficiary' = beneficiary
          /\ donations' = donations
          /\ logs' = logs
          /\ transfers' = transfers
          /\ last'.err = "none"
          /\ (last'.op = "get_donation_for_account")
               => last'.ret_amount = get_donation_for_account(last'.account)
          /\ (last'.op = "total_donations") => last'.ret_amount = total_donations
          /\ (last'.op = "get_donations")
               => last'.ret_list = get_donations(last'.from_index, last'.limit)
          /\ (last'.op = "beneficiary") => last'.ret_account = beneficiary
          /\ (/\ last.op = last'.op
              /\ last.account = last'.account
              /\ last.from_index = last'.from_index
              /\ last.limit = last'.limit)
               => last' = last]_vars

C13_Witness ==
  /\ last.op = "get_donations"
  /\ Len(last.ret_list) = 2
  /\ total_donations = 2
  /\ last.ret_list[2][2] > 0

\* C14: every successful donate call performs, in this order, one write
\* donations[caller] = current + net, one log of (caller, net, new balance)
\* with the balance just written, and one transfer of net to the
\* beneficiary stored at that time; nothing else is written, logged or
\* transferred.
C14_EffectsInOrder ==
  [][(last'.op = "donate" /\ last'.err = "none")
       => LET caller == last'.caller
              net == last'.deposit - STORAGE_COST
              new_balance == get_donation_for_account(caller) + net
          IN /\ last'.steps = << <<"insert", caller, new_balance>>,
                                 <<"log", caller, net, new_balance>>,
                                 <<"transfer", beneficiary, net>> >>
             /\ MapGetOr0(donations', caller) = new_balance
             /\ logs' = Append(logs, <<caller, net, new_balance>>)
             /\ transfers' = Append(transfers, <<beneficiary, net>>)]_vars

\* C15: a donate call, successful or failed, leaves the balance of every
\* account other than its caller and the beneficiary unchanged.
C15_DonateTouchesOnlyCaller ==
  [][(last'.op = "donate")
       => /\ beneficiary' = beneficiary
          /\ \A d \in AccountIds \cup Callers :
               d # last'.caller => MapGetOr0(donations', d) = get_donation_for_account(d)]_vars

C15_Witness ==
  /\ last.op = "donate"
  /\ last.err = "none"
  /\ last.caller = "donor_b"
  /\ last.deposit > STORAGE_COST
  /\ get_donation_for_account("donor_a") > 0

\* the whole enumeration, as get_donations with both arguments omitted gives it
Enumeration == get_donations(None, None)

\* C16: no operation reorders the enumeration: a donate call by a recorded
\* caller and a change_beneficiary call leave every entry at its position, a
\* donate call by a new caller leaves the recorded entries as they are and
\* places the new entry after them.
C16_EnumerationOrderStable ==
  [][LET before == Enumeration
         after == Enumeration'
         recorded == 1..Len(before)
     IN
     /\ state_exists
          => /\ Len(after) >= Len(before)
             /\ \A i \in recorded : after[i][1] = before[i][1]
     /\ (last'.op = "change_beneficiary") => after = before
     /\ (last'.op = "donate" /\ last'.err = "none" /\ last'.caller \in donors)
          => /\ Len(after) = Len(before)
             /\ \A i \in recorded : before[i][1] # last'.caller => after[i] = before[i]
     /\ (last'.op = "donate" /\ last'.err = "none" /\ last'.caller \notin donors)
          => /\ Len(after) = Len(before) + 1
             /\ \A i \in recorded : after[i] = before[i]
             /\ after[Len(after)][1] = last'.caller]_vars

C16_Witness ==
  /\ last.op = "donate"
  /\ last.err = "none"
  /\ Len(Enumeration) = 2
  /\ Enumeration[1][1] = last.caller
  /\ Len(logs) = 3

Min(a, b) == IF a <= b THEN a ELSE b

\* C17: get_donations with limit omitted returns the entries at positions
\* start_index .. start_index + 49 of the enumeration (those that exist);
\* with both arguments omitted it returns the first min(50, count) entries.
C17_DefaultsAreZeroAndFifty ==
  (last.op = "get_donations" /\ last.limit = None)
    => /\ last.ret_list =
            SubSeq(donations, StartOf(last) + 1,
                   Min(StartOf(last) + DEFAULT_LIMIT, total_donations))
       /\ (last.from_index = None)
            => last.ret_list = SubSeq(donations, 1, Min(DEFAULT_LIMIT, total_donations))

RECURSIVE SumAmounts(_, _)
SumAmounts(s, n) == IF n = 0 THEN 0 ELSE s[n][2] + SumAmounts(s, n - 1)

\* C18: while no donate call has overflowed, the sum of the stored balances
\* equals the sum of the amounts of the transfers issued, and the number of
\* transfers issued equals the number of successful donate calls.
C18_BalancesMatchTransfers ==
  ~overflowed
    => /\ SumAmounts(donations, Len(donations)) = SumAmounts(transfers, Len(transfers))
       /\ Len(transfers) = succeeded

C18_Witness ==
  /\ ~overflowed
  /\ succeeded = 3
  /\ total_donations = 2
  /\ SumAmounts(transfers, Len(transfers)) > U128_MAX \div 2

\* C19: a donate call with a deposit of exactly STORAGE_COST succeeds with
\* net amount 0: a new caller gets an entry of amount 0 and the count grows
\* by one, a recorded caller's balance is unchanged, and a transfer of 0 to
\* the beneficiary is issued.
C19_ExactFeeDonatesZero ==
  [][(last'.op = "donate" /\ last'.deposit = STORAGE_COST)
       => /\ last'.err = "none"
          /\ MapGetOr0(donations', last'.caller) = get_donation_for_account(last'.caller)
          /\ IF IndexOf(donations, last'.caller, 1) = 0
             THEN /\ total_donations' = total_donations + 1
                  /\ donations' = Append(donations, <<last'.caller, 0>>)
             ELSE donations' = donations
          /\ transfers' = Append(transfers, <<beneficiary, 0>>)]_vars

C19_Witness ==
  /\ last.op = "donate"
  /\ last.deposit = STORAGE_COST
  /\ last.err = "none"
  /\ total_donations = 2
  /\ donations[2] = <<last.caller, 0>>
  /\ transfers[Len(transfers)] = <<beneficiary, 0>>

\* C20: a successful change_beneficiary leaves the donations, their count,
\* the enumeration and the transfers already issued unchanged; every
\* successful donate adds one transfer addressed to the beneficiary stored
\* at that time and alters no earlier transfer, and the beneficiary changes
\* only by a successful change_beneficiary (or new).
C20_ChangeBeneficiaryFrame ==
  [][/\ (last'.op = "change_beneficiary" /\ last'.err = "none")
          => /\ beneficiary' = last'.account
             /\ donations' = donations
             /\ total_donations' = total_donations
             /\ Enumeration' = Enumeration
             /\ transfers' = transfers
     /\ (last'.op = "donate" /\ last'.err = "none")
          => /\ Len(transfers') = Len(transfers) + 1
             /\ SubSeq(transfers', 1, Len(transfers)) = transfers
             /\ transfers'[Len(transfers')][1] = beneficiary
     /\ ~(last'.op \in {"change_beneficiary", "new"} /\ last'.err = "none")
          => beneficiary' = beneficiary]_vars

C20_Witness ==
  /\ last.op = "donate"
  /\ last.err = "none"
  /\ Len(transfers) = 2
  /\ transfers[1][1] # transfers[2][1]
  /\ transfers[2][1] = beneficiary
  /\ ncalls = 3
====
